---------------------------- MODULE Spec2Model ----------------------------
(***************************************************************************)
(* The two scaffolding scripts of the Latency Arbitrage Simulator:         *)
(*   setup.py          create_project_structure()                          *)
(*   download_glad.py  download_glad()                                     *)
(* modelled as step-by-step programs acting on a filesystem.               *)
(*                                                                         *)
(* A path is the sequence of its parts, as pathlib splits it on the        *)
(* platform the scripts are written for (PROJECT_ROOT carries a drive      *)
(* letter, so it is absolute and os.chdir does not change what it names).  *)
(* The filesystem is the set of directories and a map from the regular     *)
(* files to their contents.  A file's content is the sequence of tokens    *)
(* written to it: f.write(s) writes the one token s, json.dump writes the  *)
(* JSON tokens of the value (layout whitespace of indent=4 is not kept).   *)
(* Exceptions carry the class Python raises on that platform; an uncaught  *)
(* exception ends the run where it is.                                     *)
(***************************************************************************)
EXTENDS Naturals, Sequences, FiniteSets, TLC

\* Most paths under the project root that exist before the first run.
MaxPre == 2
\* Most script runs in one behaviour.
MaxRuns == 3

---------------------------------------------------------------------------
(* Python values: <<"s", text>> a str (text as json escapes it),           *)
(* <<"n", repr>> a float by its repr, <<"l", items>> a list,               *)
(* <<"d", <<key, value>> pairs>> a dict in insertion order.                *)

PROJECT_ROOT == <<"D:/", "Projects", "Latency-Arb-Simulator">>

DIRECTORIES == <<"src", "include", "data", "shaders", "build", "docs", "tests">>

exchanges == <<
    <<"d", << <<"id", <<"s", "NYSE">> >>, <<"name", <<"s", "New York Stock Exchange">> >>, <<"lat", <<"n", "40.7069">> >>, <<"lon", <<"n", "-74.0113">> >>, <<"city", <<"s", "New York">> >>, <<"type", <<"s", "equity">> >> >> >>,
    <<"d", << <<"id", <<"s", "NASDAQ">> >>, <<"name", <<"s", "NASDAQ">> >>, <<"lat", <<"n", "40.7489">> >>, <<"lon", <<"n", "-73.968">> >>, <<"city", <<"s", "New York">> >>, <<"type", <<"s", "equity">> >> >> >>,
    <<"d", << <<"id", <<"s", "CME">> >>, <<"name", <<"s", "Chicago Mercantile Exchange">> >>, <<"lat", <<"n", "41.8781">> >>, <<"lon", <<"n", "-87.6298">> >>, <<"city", <<"s", "Chicago">> >>, <<"type", <<"s", "derivatives">> >> >> >>,
    <<"d", << <<"id", <<"s", "LSE">> >>, <<"name", <<"s", "London Stock Exchange">> >>, <<"lat", <<"n", "51.5149">> >>, <<"lon", <<"n", "-0.0909">> >>, <<"city", <<"s", "London">> >>, <<"type", <<"s", "equity">> >> >> >>,
    <<"d", << <<"id", <<"s", "JPX">> >>, <<"name", <<"s", "Japan Exchange Group">> >>, <<"lat", <<"n", "35.6762">> >>, <<"lon", <<"n", "139.6503">> >>, <<"city", <<"s", "Tokyo">> >>, <<"type", <<"s", "equity">> >> >> >>,
    <<"d", << <<"id", <<"s", "SSE">> >>, <<"name", <<"s", "Shanghai Stock Exchange">> >>, <<"lat", <<"n", "31.2304">> >>, <<"lon", <<"n", "121.4737">> >>, <<"city", <<"s", "Shanghai">> >>, <<"type", <<"s", "equity">> >> >> >>,
    <<"d", << <<"id", <<"s", "HKEX">> >>, <<"name", <<"s", "Hong Kong Stock Exchange">> >>, <<"lat", <<"n", "22.3193">> >>, <<"lon", <<"n", "114.1694">> >>, <<"city", <<"s", "Hong Kong">> >>, <<"type", <<"s", "equity">> >> >> >>,
    <<"d", << <<"id", <<"s", "EUREX">> >>, <<"name", <<"s", "Eurex">> >>, <<"lat", <<"n", "50.1109">> >>, <<"lon", <<"n", "8.6821">> >>, <<"city", <<"s", "Frankfurt">> >>, <<"type", <<"s", "derivatives">> >> >> >>,
    <<"d", << <<"id", <<"s", "TMX">> >>, <<"name", <<"s", "TMX Group (Toronto)">> >>, <<"lat", <<"n", "43.6532">> >>, <<"lon", <<"n", "-79.3832">> >>, <<"city", <<"s", "Toronto">> >>, <<"type", <<"s", "equity">> >> >> >>,
    <<"d", << <<"id", <<"s", "BSE">> >>, <<"name", <<"s", "Bombay Stock Exchange">> >>, <<"lat", <<"n", "18.9292">> >>, <<"lon", <<"n", "72.8333">> >>, <<"city", <<"s", "Mumbai">> >>, <<"type", <<"s", "equity">> >> >> >>,
    <<"d", << <<"id", <<"s", "KRX">> >>, <<"name", <<"s", "Korea Exchange">> >>, <<"lat", <<"n", "37.5665">> >>, <<"lon", <<"n", "126.978">> >>, <<"city", <<"s", "Seoul">> >>, <<"type", <<"s", "equity">> >> >> >>,
    <<"d", << <<"id", <<"s", "ASX">> >>, <<"name", <<"s", "Australian Securities Exchange">> >>, <<"lat", <<"n", "-33.8688">> >>, <<"lon", <<"n", "151.2093">> >>, <<"city", <<"s", "Sydney">> >>, <<"type", <<"s", "equity">> >> >> >>,
    <<"d", << <<"id", <<"s", "BMV">> >>, <<"name", <<"s", "Mexican Stock Exchange">> >>, <<"lat", <<"n", "19.4326">> >>, <<"lon", <<"n", "-99.1332">> >>, <<"city", <<"s", "Mexico City">> >>, <<"type", <<"s", "equity">> >> >> >>,
    <<"d", << <<"id", <<"s", "B3">> >>, <<"name", <<"s", "B3 (Brazil)">> >>, <<"lat", <<"n", "-23.5505">> >>, <<"lon", <<"n", "-46.6333">> >>, <<"city", <<"s", "S\\u00c3\\u00a3o Paulo">> >>, <<"type", <<"s", "equity">> >> >> >>,
    <<"d", << <<"id", <<"s", "SIX">> >>, <<"name", <<"s", "SIX Swiss Exchange">> >>, <<"lat", <<"n", "47.3769">> >>, <<"lon", <<"n", "8.5417">> >>, <<"city", <<"s", "Zurich">> >>, <<"type", <<"s", "equity">> >> >> >>,
    <<"d", << <<"id", <<"s", "BINANCE">> >>, <<"name", <<"s", "Binance (Virtual)">> >>, <<"lat", <<"n", "1.3521">> >>, <<"lon", <<"n", "103.8198">> >>, <<"city", <<"s", "Singapore">> >>, <<"type", <<"s", "crypto">> >> >> >>,
    <<"d", << <<"id", <<"s", "COINBASE">> >>, <<"name", <<"s", "Coinbase">> >>, <<"lat", <<"n", "37.7749">> >>, <<"lon", <<"n", "-122.4194">> >>, <<"city", <<"s", "San Francisco">> >>, <<"type", <<"s", "crypto">> >> >> >>,
    <<"d", << <<"id", <<"s", "KRAKEN">> >>, <<"name", <<"s", "Kraken">> >>, <<"lat", <<"n", "37.7749">> >>, <<"lon", <<"n", "-122.4194">> >>, <<"city", <<"s", "San Francisco">> >>, <<"type", <<"s", "crypto">> >> >> >>,
    <<"d", << <<"id", <<"s", "BITFINEX">> >>, <<"name", <<"s", "Bitfinex">> >>, <<"lat", <<"n", "51.5074">> >>, <<"lon", <<"n", "-0.1278">> >>, <<"city", <<"s", "London">> >>, <<"type", <<"s", "crypto">> >> >> >>,
    <<"d", << <<"id", <<"s", "HUOBI">> >>, <<"name", <<"s", "Huobi">> >>, <<"lat", <<"n", "1.3521">> >>, <<"lon", <<"n", "103.8198">> >>, <<"city", <<"s", "Singapore">> >>, <<"type", <<"s", "crypto">> >> >> >>,
    <<"d", << <<"id", <<"s", "FTX">> >>, <<"name", <<"s", "FTX (Historical)">> >>, <<"lat", <<"n", "25.7617">> >>, <<"lon", <<"n", "-80.1918">> >>, <<"city", <<"s", "Miami">> >>, <<"type", <<"s", "crypto">> >> >> >>,
    <<"d", << <<"id", <<"s", "GEMINI">> >>, <<"name", <<"s", "Gemini">> >>, <<"lat", <<"n", "40.7128">> >>, <<"lon", <<"n", "-74.006">> >>, <<"city", <<"s", "New York">> >>, <<"type", <<"s", "crypto">> >> >> >>,
    <<"d", << <<"id", <<"s", "BYBIT">> >>, <<"name", <<"s", "Bybit">> >>, <<"lat", <<"n", "22.3193">> >>, <<"lon", <<"n", "114.1694">> >>, <<"city", <<"s", "Hong Kong">> >>, <<"type", <<"s", "crypto">> >> >> >> >>

\* Faulty variant: the first entry has lost its "city".
EXCHANGE_DATA_missing_field ==
  <<"d", << <<"exchanges",
     <<"l", [exchanges EXCEPT ![1] = <<"d", SelectSeq(@[2], LAMBDA m : m[1] # "city")>>]>> >> >> >>

\* Faulty variant: the second entry carries the id of the first.
EXCHANGE_DATA_duplicate_id ==
  <<"d", << <<"exchanges",
     <<"l", [exchanges EXCEPT ![2] = <<"d", [@[2] EXCEPT ![1] = exchanges[1][2][1]]>>]>> >> >> >>

\* Faulty variant: the last entry has a venue type of its own.
EXCHANGE_DATA_other_type ==
  <<"d", << <<"exchanges",
     <<"l", [exchanges EXCEPT ![Len(exchanges)] =
               <<"d", [m \in DOMAIN @[2] |->
                         IF @[2][m][1] = "type" THEN <<"type", <<"s", "forex">> >> ELSE @[2][m]]>>]>> >> >> >>

EXCHANGE_DATA == <<"d", << <<"exchanges", <<"l", exchanges>> >> >> >>

\* The three long text templates are named by their first line.
CMAKE_TEMPLATE == "cmake_minimum_required(VERSION 3.15)\n..."

MAIN_CPP_TEMPLATE == "#include <iostream>\n..."

README_TEMPLATE == "# Latency Arbitrage Simulator\n..."

VSCODE_SETTINGS ==
  <<"d", <<
      <<"C_Cpp.default.configurationProvider", <<"s", "ms-vscode.cmake-tools">> >>,
      <<"cmake.configureSettings", <<"d", <<
          <<"CMAKE_TOOLCHAIN_FILE", <<"s", "D:/vcpkg/scripts/buildsystems/vcpkg.cmake">> >> >> >> >>,
      <<"files.associations", <<"d", <<
          <<"*.h", <<"s", "cpp">> >>,
          <<"*.cpp", <<"s", "cpp">> >> >> >> >> >> >>

GLAD_URL == "https://github.com/Dav1dde/glad/archive/refs/heads/master.zip"

---------------------------------------------------------------------------
(* json.dump(obj, f, indent=4): the JSON tokens of obj, in order.          *)

RECURSIVE JsonDump(_)
RECURSIVE JsonItems(_, _)
RECURSIVE JsonMembers(_, _)

JsonQuote(s) == "\"" \o s \o "\""

JsonItems(items, i) ==
  IF i > Len(items) THEN <<>>
  ELSE (IF i > 1 THEN <<",">> ELSE <<>>) \o JsonDump(items[i]) \o JsonItems(items, i + 1)

JsonMembers(pairs, i) ==
  IF i > Len(pairs) THEN <<>>
  ELSE (IF i > 1 THEN <<",">> ELSE <<>>)
       \o <<JsonQuote(pairs[i][1]), ":">> \o JsonDump(pairs[i][2])
       \o JsonMembers(pairs, i + 1)

JsonDump(v) ==
  CASE v[1] = "s" -> <<JsonQuote(v[2])>>
    [] v[1] = "n" -> <<v[2]>>
    [] v[1] = "l" -> <<"[">> \o JsonItems(v[2], 1) \o <<"]">>
    [] v[1] = "d" -> <<"{">> \o JsonMembers(v[2], 1) \o <<"}">>

\* f.write(s): the text as it is.
TextOf(s) == <<s>>

---------------------------------------------------------------------------
(* Paths (pathlib) *)

\* p / name
Join(p, name) == p \o <<name>>

\* p.parent; the anchor (the drive) is its own parent.
Parent(p) == IF Len(p) <= 1 THEN p ELSE SubSeq(p, 1, Len(p) - 1)

\* Content of a file that is already there when the first script starts.
OLD == <<"<pre-existing content>">>

---------------------------------------------------------------------------
(* Filesystem calls.  D is the set of directories, F the map from the      *)
(* regular files to their contents.  Each call yields the exception        *)
(* raised ("none" when the call returns) and the filesystem it leaves.     *)

Exists(p, D, F) == p \in D \/ p \in DOMAIN F

\* os.mkdir(p)
os_mkdir(p, D, F) ==
  IF Exists(p, D, F) THEN [err |-> "FileExistsError", dirs |-> D]
  ELSE IF Parent(p) = p \/ Parent(p) \notin D
       THEN [err |-> "FileNotFoundError", dirs |-> D]
       ELSE [err |-> "none", dirs |-> D \cup {p}]

RECURSIVE mkdir(_, _, _, _, _)
\* Path.mkdir(parents=..., exist_ok=...)
mkdir(p, parents, exist_ok, D, F) ==
  LET r == os_mkdir(p, D, F) IN
  CASE r.err = "none" -> r
    [] r.err = "FileNotFoundError" ->
         IF ~parents \/ Parent(p) = p THEN r
         ELSE LET up == mkdir(Parent(p), TRUE, TRUE, D, F) IN
              IF up.err # "none" THEN up
              ELSE mkdir(p, FALSE, exist_ok, up.dirs, F)
    [] OTHER ->
         IF ~exist_ok \/ p \notin D THEN r
         ELSE [err |-> "none", dirs |-> D]

\* open(p, "w") followed by writing `data` and closing the file.
open_w(p, data, D, F) ==
  IF p \in D THEN [err |-> "PermissionError", files |-> F]
  ELSE IF Parent(p) \notin D THEN [err |-> "FileNotFoundError", files |-> F]
  ELSE [err |-> "none",
        files |-> [q \in DOMAIN F \cup {p} |-> IF q = p THEN data ELSE F[q]]]

---------------------------------------------------------------------------
(* The two scripts, as the sequence of the filesystem calls each makes.    *)

MkdirStep(p, parents) ==
  [op |-> "mkdir", path |-> p, parents |-> parents, exist_ok |-> TRUE, data |-> <<>>]

ChdirStep(p) ==
  [op |-> "chdir", path |-> p, parents |-> FALSE, exist_ok |-> FALSE, data |-> <<>>]

WriteStep(p, data) ==
  [op |-> "write", path |-> p, parents |-> FALSE, exist_ok |-> FALSE, data |-> data]

vscode_dir == Join(PROJECT_ROOT, ".vscode")

\* setup.py lines 253-255
create_root ==
  << MkdirStep(PROJECT_ROOT, TRUE),
     ChdirStep(PROJECT_ROOT) >>

\* setup.py lines 257-262: for directory in DIRECTORIES
create_directories ==
  [i \in 1..Len(DIRECTORIES) |-> MkdirStep(Join(PROJECT_ROOT, DIRECTORIES[i]), FALSE)]

\* setup.py lines 264-269
create_vscode ==
  << MkdirStep(vscode_dir, FALSE),
     WriteStep(Join(vscode_dir, "settings.json"), JsonDump(VSCODE_SETTINGS)) >>

\* setup.py lines 271-308
write_files ==
  << WriteStep(Join(PROJECT_ROOT, "CMakeLists.txt"), TextOf(CMAKE_TEMPLATE)),
     WriteStep(Join(Join(PROJECT_ROOT, "src"), "main.cpp"), TextOf(MAIN_CPP_TEMPLATE)),
     WriteStep(Join(Join(PROJECT_ROOT, "data"), "exchanges.json"), JsonDump(EXCHANGE_DATA)),
     WriteStep(Join(PROJECT_ROOT, "README.md"), TextOf(README_TEMPLATE)),
     WriteStep(Join(Join(PROJECT_ROOT, "shaders"), "globe_vertex.glsl"),
               TextOf("// Vertex shader - to be implemented\n")),
     WriteStep(Join(Join(PROJECT_ROOT, "shaders"), "globe_fragment.glsl"),
               TextOf("// Fragment shader - to be implemented\n")),
     WriteStep(Join(PROJECT_ROOT, ".gitignore"),
               TextOf("build/\n*.exe\n*.obj\n*.pdb\n.vs/\n.vscode/\n")) >>

\* Faulty variant: the README is never written.
create_project_structure_without_readme ==
  create_root \o create_directories \o create_vscode
    \o SelectSeq(write_files, LAMBDA s : s.path # Join(PROJECT_ROOT, "README.md"))

\* Faulty variant: every mkdir without exist_ok=True.
create_project_structure_not_exist_ok ==
  LET all == create_root \o create_directories \o create_vscode \o write_files IN
  [i \in DOMAIN all |-> [all[i] EXCEPT !.exist_ok = FALSE]]

\* Faulty variant: the root is made without parents=True.
create_project_structure_no_parents ==
  << MkdirStep(PROJECT_ROOT, FALSE), ChdirStep(PROJECT_ROOT) >>
    \o create_directories \o create_vscode \o write_files

create_project_structure ==
  create_root \o create_directories \o create_vscode \o write_files

external_dir == Join(PROJECT_ROOT, "external")
zip_path == Join(external_dir, "glad.zip")
glad_dir == Join(external_dir, "glad")
include_dir == Join(glad_dir, "include")
glad_h_dir == Join(include_dir, "glad")
khr_dir == Join(include_dir, "KHR")
src_dir == Join(glad_dir, "src")

\* Faulty variant: the archive at GLAD_URL is fetched into zip_path.
download_glad_fetches_zip ==
  << MkdirStep(external_dir, FALSE),
     WriteStep(zip_path, TextOf(GLAD_URL)),
     MkdirStep(glad_dir, FALSE),
     MkdirStep(include_dir, FALSE),
     MkdirStep(glad_h_dir, FALSE),
     MkdirStep(khr_dir, FALSE),
     MkdirStep(src_dir, FALSE) >>

download_glad ==
  << MkdirStep(external_dir, FALSE),
     MkdirStep(glad_dir, FALSE),
     MkdirStep(include_dir, FALSE),
     MkdirStep(glad_h_dir, FALSE),
     MkdirStep(khr_dir, FALSE),
     MkdirStep(src_dir, FALSE) >>

Program(s) == IF s = "setup" THEN create_project_structure ELSE download_glad

---------------------------------------------------------------------------
(* State *)

VARIABLES
  dirs,      \* the directories that exist
  files,     \* the regular files that exist, each with its content
  cwd,       \* the process's working directory
  script,    \* the script of the current (or last) run: "none", "setup", "glad"
  pc,        \* index of the next call of that script
  err,       \* the exception that ended the run, "none" while there is none
  runs,      \* runs started so far
  start,     \* the filesystem as the current run found it
  okBefore,  \* a run of setup.py had completed before the current run started
  log        \* the calls the current run has completed, in order

vars == <<dirs, files, cwd, script, pc, err, runs, start, okBefore, log>>

Running == script # "none" /\ err = "none" /\ pc <= Len(Program(script))
Completed == script # "none" /\ err = "none" /\ pc > Len(Program(script))
Step == Program(script)[pc]

\* Every path either script names, below the project root.
Targets ==
  ({create_project_structure[i].path : i \in DOMAIN create_project_structure}
     \cup {download_glad[i].path : i \in DOMAIN download_glad}
     \cup {zip_path}) \ {PROJECT_ROOT}

Ancestors == <<Parent(Parent(PROJECT_ROOT)), Parent(PROJECT_ROOT), PROJECT_ROOT>>

(* The filesystem before the first run: the first `base` of drive,         *)
(* Projects, project root exist as directories; the next one may be there  *)
(* as a regular file; and when the root exists, up to MaxPre of the paths  *)
(* below it exist, each as a directory or as a regular file, every one     *)
(* inside a directory.                                                     *)
Init ==
  \E base \in 0..3, blocked \in BOOLEAN, pick \in [1..MaxPre -> Targets \cup {<<>>}] :
    LET pre == {pick[i] : i \in 1..MaxPre} \ {<<>>} IN
    \E preDirs \in SUBSET pre :
      /\ blocked => base \in 1..2
      /\ base < 3 => pre = {}
      /\ \A p \in pre : Parent(p) \in preDirs \cup {PROJECT_ROOT}
      /\ dirs = {Ancestors[i] : i \in 1..base} \cup preDirs
      /\ files = [p \in (pre \ preDirs)
                        \cup (IF blocked THEN {Ancestors[base + 1]} ELSE {}) |-> OLD]
      /\ cwd = <<"C:/">>
      /\ script = "none"
      /\ pc = 1
      /\ err = "none"
      /\ runs = 0
      /\ start = [dirs |-> dirs, files |-> files]
      /\ okBefore = FALSE
      /\ log = <<>>

---------------------------------------------------------------------------
(* Starting a script: python setup.py / python download_glad.py *)

Run(s) ==
  /\ ~Running
  /\ runs < MaxRuns
  /\ script' = s
  /\ pc' = 1
  /\ err' = "none"
  /\ runs' = runs + 1
  /\ start' = [dirs |-> dirs, files |-> files]
  /\ okBefore' = (okBefore \/ (script = "setup" /\ Completed))
  /\ log' = <<>>
  /\ UNCHANGED <<dirs, files, cwd>>

RunSetup == Run("setup")

RunDownloadGlad == Run("glad")

\* What a call leaves behind it: the next call, or the exception.
Advance(e) ==
  /\ err' = e
  /\ pc' = IF e = "none" THEN pc + 1 ELSE pc
  /\ log' = IF e = "none" THEN Append(log, [op |-> Step.op, path |-> Step.path]) ELSE log
  /\ UNCHANGED <<script, runs, start, okBefore>>

\* <path>.mkdir(...)
DoMkdir ==
  /\ Running
  /\ Step.op = "mkdir"
  /\ LET r == mkdir(Step.path, Step.parents, Step.exist_ok, dirs, files) IN
       /\ dirs' = r.dirs
       /\ Advance(r.err)
  /\ UNCHANGED <<files, cwd>>

\* os.chdir(PROJECT_ROOT)
DoChdir ==
  /\ Running
  /\ Step.op = "chdir"
  /\ IF Step.path \in dirs
       THEN cwd' = Step.path /\ Advance("none")
       ELSE cwd' = cwd /\ Advance(IF Step.path \in DOMAIN files
                                    THEN "NotADirectoryError" ELSE "FileNotFoundError")
  /\ UNCHANGED <<dirs, files>>

\* with open(<path>, "w") as f: f.write(...) / json.dump(..., f, indent=4)
DoWrite ==
  /\ Running
  /\ Step.op = "write"
  /\ LET r == open_w(Step.path, Step.data, dirs, files) IN
       /\ files' = r.files
       /\ Advance(r.err)
  /\ UNCHANGED <<dirs, cwd>>

Next == RunSetup \/ RunDownloadGlad \/ DoMkdir \/ DoChdir \/ DoWrite

Spec == Init /\ [][Next]_vars

---------------------------------------------------------------------------
(* Reading a catalog file back: the keys of the top-level object, the      *)
(* token that opens their value, and for every object inside the array     *)
(* its <<key, value token>> members in order; `stray` counts array items   *)
(* that are not objects.                                                   *)

\* The members of the set S of positive integers, in increasing order.
Sorted(S) ==
  [k \in 1..Cardinality(S) |->
     CHOOSE s \in S : Cardinality(S \cap (1..s - 1)) = k - 1] \o <<>>

\* The members at the key tokens `mine`, each with the token its value
\* starts with.
EntryMembers(toks, mine) ==
  [m \in 1..Len(mine) |-> <<toks[mine[m]], toks[mine[m] + 2]>>] \o <<>>

\* The object between its opening token s and its closing token e.
EntryBetween(toks, keys, s, e) ==
  EntryMembers(toks, Sorted(keys \cap (s + 1..e - 1)))

\* The object that opens at token s: its members, in order.
EntryAt(toks, depth, keys, s) ==
  EntryBetween(toks, keys, s,
    CHOOSE j \in s + 1..Len(toks) :
      /\ toks[j] = "}" /\ depth[j] = depth[s] + 1
      /\ \A x \in s + 1..j - 1 : ~(toks[x] = "}" /\ depth[x] = depth[s] + 1))

ParseAt(toks, depth, top, starts, keys) ==
  [ top |-> [k \in 1..Len(top) |-> toks[top[k]]] \o <<>>,
    opens |-> [k \in 1..Len(top) |-> toks[top[k] + 2]] \o <<>>,
    entries |-> [k \in 1..Len(starts) |-> EntryAt(toks, depth, keys, starts[k])] \o <<>>,
    stray |-> Cardinality({i \in 1..Len(toks) :
                             depth[i] = 2 /\ toks[i] \notin {"{", ",", "]"}}) ]

\* depth[i] is the number of objects and arrays token i is read inside.
ParseDepth(toks, depth) ==
  ParseAt(toks, depth,
    Sorted({i \in 1..Len(toks) - 1 : toks[i + 1] = ":" /\ depth[i] = 1}),
    Sorted({i \in 1..Len(toks) : toks[i] = "{" /\ depth[i] = 2}),
    {i \in 1..Len(toks) - 1 : toks[i + 1] = ":" /\ depth[i] = 3})

ParseBrackets(toks, opening, closing) ==
  ParseDepth(toks,
    [i \in 1..Len(toks) |->
       Cardinality(opening \cap (1..i - 1)) - Cardinality(closing \cap (1..i - 1))] \o <<>>)

ParseCatalog(toks) ==
  ParseBrackets(toks,
    {j \in 1..Len(toks) : toks[j] \in {"{", "["}},
    {j \in 1..Len(toks) : toks[j] \in {"}", "]"}})

FieldOf(entry, key) ==
  LET i == CHOOSE j \in 1..Len(entry) : entry[j][1] = key IN entry[i][2]

HasField(entry, key) == \E j \in 1..Len(entry) : entry[j][1] = key

\* d[key] on a Python dict
DictGet(d, key) ==
  LET i == CHOOSE j \in 1..Len(d[2]) : d[2][j][1] = key IN d[2][i][2]

CatalogFile == Join(Join(PROJECT_ROOT, "data"), "exchanges.json")

\* What json.dump writes for EXCHANGE_DATA, and what reading it back gives.
CatalogTokens == JsonDump(EXCHANGE_DATA)

CatalogParsed == ParseCatalog(CatalogTokens)

\* The catalog file of the current state, read back.  (The parse of the
\* tokens that setup writes is computed once, not once per state.)
ReadCatalog ==
  IF files[CatalogFile] = CatalogTokens THEN CatalogParsed
  ELSE ParseCatalog(files[CatalogFile])

\* The current run of setup.py has written the catalog file.
WroteCatalog ==
  /\ script = "setup"
  /\ \E i \in 1..Len(log) : log[i] = [op |-> "write", path |-> CatalogFile]


SixFields == {"\"id\"", "\"name\"", "\"lat\"", "\"lon\"", "\"city\"", "\"type\""}

VenueTypes == {"equity", "derivatives", "crypto"}

\* EXCHANGE_DATA["exchanges"], as the script holds it in memory
Registry == DictGet(EXCHANGE_DATA, "exchanges")[2]

RegistryIdsDistinct ==
  \A i, j \in 1..Len(Registry) :
    i # j => DictGet(Registry[i], "id") # DictGet(Registry[j], "id")

RegistryTypesKnown ==
  \A i \in 1..Len(Registry) : DictGet(Registry[i], "type")[2] \in VenueTypes

---------------------------------------------------------------------------
(* Claims *)

SetupDirs ==
  {Join(PROJECT_ROOT, DIRECTORIES[i]) : i \in 1..Len(DIRECTORIES)} \cup {vscode_dir}

SetupFiles ==
  [p \in { Join(PROJECT_ROOT, "CMakeLists.txt"),
           Join(Join(PROJECT_ROOT, "src"), "main.cpp"),
           CatalogFile,
           Join(PROJECT_ROOT, "README.md"),
           Join(Join(PROJECT_ROOT, "shaders"), "globe_vertex.glsl"),
           Join(Join(PROJECT_ROOT, "shaders"), "globe_fragment.glsl"),
           Join(PROJECT_ROOT, ".gitignore"),
           Join(vscode_dir, "settings.json") } |->
     CASE p = Join(PROJECT_ROOT, "CMakeLists.txt") -> <<CMAKE_TEMPLATE>>
       [] p = Join(Join(PROJECT_ROOT, "src"), "main.cpp") -> <<MAIN_CPP_TEMPLATE>>
       [] p = CatalogFile -> JsonDump(EXCHANGE_DATA)
       [] p = Join(PROJECT_ROOT, "README.md") -> <<README_TEMPLATE>>
       [] p = Join(Join(PROJECT_ROOT, "shaders"), "globe_vertex.glsl") ->
            <<"// Vertex shader - to be implemented\n">>
       [] p = Join(Join(PROJECT_ROOT, "shaders"), "globe_fragment.glsl") ->
            <<"// Fragment shader - to be implemented\n">>
       [] p = Join(PROJECT_ROOT, ".gitignore") ->
            <<"build/\n*.exe\n*.obj\n*.pdb\n.vs/\n.vscode/\n">>
       [] OTHER -> JsonDump(VSCODE_SETTINGS)]

\* C1: when create_project_structure() has run to completion, whatever the
\* filesystem was before, the project root holds every directory of
\* DIRECTORIES and .vscode, and the eight files, each with the content the
\* script has for it.
C1_LayoutAfterSetup ==
  (script = "setup" /\ Completed) =>
     /\ PROJECT_ROOT \in dirs
     /\ SetupDirs \subseteq dirs
     /\ \A p \in DOMAIN SetupFiles : p \in DOMAIN files /\ files[p] = SetupFiles[p]

\* C1 witness: setup ran to completion on a filesystem that had no project
\* root, and made the whole layout.
C1_Witness ==
  /\ script = "setup" /\ Completed
  /\ PROJECT_ROOT \notin start.dirs
  /\ SetupDirs \subseteq dirs
  /\ DOMAIN SetupFiles \subseteq DOMAIN files

GladDirs == {external_dir, glad_dir, include_dir, glad_h_dir, khr_dir, src_dir}

CatalogShape(c) ==
  /\ c.top = <<"\"exchanges\"">>
  /\ c.opens = <<"[">>
  /\ c.stray = 0
  /\ \A i \in 1..Len(c.entries) :
       /\ Len(c.entries[i]) = 6
       /\ {c.entries[i][j][1] : j \in 1..6} = SixFields

\* C3: the catalog that create_project_structure() writes to
\* data/exchanges.json is one object with the single key "exchanges", whose
\* value is an array of objects, each with exactly the six fields id, name,
\* lat, lon, city, type.
C3_CatalogShape == WroteCatalog => CatalogShape(ReadCatalog)

\* C3 witness: the catalog has been written and holds all the exchanges.
C3_Witness ==
  /\ WroteCatalog
  /\ Len(ReadCatalog.entries) = Len(exchanges)
  /\ Len(exchanges) > 1

FieldValues(c, key) == {FieldOf(c.entries[i], key) : i \in 1..Len(c.entries)}

CatalogIdsDistinct(c) ==
  /\ \A i \in 1..Len(c.entries) : HasField(c.entries[i], "\"id\"")
  /\ Cardinality(FieldValues(c, "\"id\"")) = Len(c.entries)

\* C4: no two entries of EXCHANGE_DATA["exchanges"] have the same id, and the
\* same holds of the entries of the catalog file setup writes.
C4_IdsAreKeys ==
  /\ RegistryIdsDistinct
  /\ WroteCatalog => CatalogIdsDistinct(ReadCatalog)

\* C4 witness: the written catalog holds as many different ids as the
\* registry has entries, more than one.
C4_Witness ==
  /\ WroteCatalog /\ Completed
  /\ Cardinality(FieldValues(ReadCatalog, "\"id\"")) = Len(Registry)
  /\ Len(Registry) > 1

CatalogTypesKnown(c) ==
  /\ \A i \in 1..Len(c.entries) : HasField(c.entries[i], "\"type\"")
  /\ FieldValues(c, "\"type\"") \subseteq {JsonQuote(v) : v \in VenueTypes}

\* C5: every entry of the exchange catalog, in memory and as written to the
\* file, has a type that is one of equity, derivatives, crypto.
C5_TypesKnown ==
  /\ RegistryTypesKnown
  /\ WroteCatalog => CatalogTypesKnown(ReadCatalog)

\* C5 witness: the written catalog has entries of each of the three types.
C5_Witness ==
  /\ WroteCatalog
  /\ FieldValues(ReadCatalog, "\"type\"") = {JsonQuote(v) : v \in VenueTypes}

\* C9: a run of create_project_structure() that starts after an earlier run
\* of it completed never raises, and at every point of it the directories,
\* the files and every file's content are those it found at its start.
C9_SetupIdempotent ==
  (script = "setup" /\ okBefore) =>
     /\ err = "none"
     /\ dirs = start.dirs
     /\ files = start.files

\* C9 witness: a second run of setup has completed.
C9_Witness ==
  /\ script = "setup" /\ okBefore /\ Completed
  /\ DOMAIN SetupFiles \subseteq DOMAIN start.files

\* C10 as stated: no call of either script fails on a missing parent.
C10_NoMissingParent == err # "FileNotFoundError"

\* C10 amended: a call fails on a missing parent only as the first call of a
\* script, having changed nothing: in download_glad() when the project root
\* is not an existing directory, in create_project_structure() when drive D:
\* is not there.  download_glad() run without the project root gets no
\* further than that first call.  Every later mkdir or write is made when
\* the parent directory of its target exists.
C10_MissingParentOnlyAtFirstCall ==
  /\ err = "FileNotFoundError" =>
       /\ pc = 1
       /\ dirs = start.dirs /\ files = start.files
       /\ \/ script = "glad" /\ PROJECT_ROOT \notin dirs
          \/ script = "setup" /\ Ancestors[1] \notin dirs
  /\ (script = "glad" /\ PROJECT_ROOT \notin start.dirs) => (pc = 1 /\ dirs = start.dirs)
  /\ (Running /\ pc > 1 /\ Step.op \in {"mkdir", "write"}) => Parent(Step.path) \in dirs

\* C10 witness: download_glad() run where setup has not made the project
\* root: its first mkdir has failed.
C10_Witness ==
  /\ script = "glad"
  /\ err = "FileNotFoundError"
  /\ PROJECT_ROOT \notin dirs /\ PROJECT_ROOT \notin DOMAIN files

===========================================================================
